---- MODULE Spec2Model ----
(***************************************************************************)
(* Model of PRE/quantum-cryptography.py: QuantumCryptographySimulator.      *)
(*                                                                          *)
(* One behaviour is one call of run_comprehensive_benchmark(algorithms)     *)
(* followed by print_benchmark_summary(report), as main() does.  The two    *)
(* runners simulate_kem_exchange and simulate_digital_signature are         *)
(* modelled statement by statement; the external provider (oqs) is the      *)
(* environment: each of its calls either returns or raises.                 *)
(*                                                                          *)
(* Byte strings are records [len, id]: len is what len() returns, id tells  *)
(* two strings of the same length apart.  Python dicts are sequences of     *)
(* <<key, value>> pairs in insertion order.  The clock advances by one unit *)
(* per provider call, so a duration counts the provider calls it covers.    *)
(***************************************************************************)
EXTENDS Integers, Sequences, FiniteSets

\* longest algorithm list given to run_comprehensive_benchmark
MaxAlgs == 3

\* number of distinct values a shared secret can take
NumSecrets == 2

VARIABLES
  algorithms,            \* the list given to run_comprehensive_benchmark
  i,                     \* position of the for loop in algorithms
  j,                     \* position of benchmark_algorithm in OperationOrder
  pc,                    \* the statement about to run
  results,               \* benchmark_algorithm's local list
  benchmark_results,     \* the report (dict: name -> list of CryptoResult)
  output,                \* the lines print_benchmark_summary has logged
  now,                   \* time.time()
  start_time,            \* the runner's local start_time
  open,                  \* provider sessions constructed and not yet exited
  public_key,            \* runner locals
  ciphertext,
  shared_secret_server,
  shared_secret_client,
  signature,
  is_valid,
  exc,                   \* the exception in flight ("" when none)
  escaped,               \* an exception left the runner
  ret,                   \* the runner's return value (<<>> when none)
  events,                \* what the current runner invocation did, in order
  invocations,           \* the runner invocations of this run, in order
  calls                  \* what each benchmark_algorithm call returned

vars == <<algorithms, i, j, pc, results, benchmark_results, output, now,
          start_time, open, public_key, ciphertext, shared_secret_server,
          shared_secret_client, signature, is_valid, exc, escaped, ret,
          events, invocations, calls>>

locals == <<public_key, ciphertext, shared_secret_server,
            shared_secret_client, signature, is_valid>>

-----------------------------------------------------------------------------
(* The provider *)

\* names a caller may pass: a KEM, a signature scheme, and one the provider
\* does not know
AlgorithmNames == {"ML-KEM-512", "ML-DSA-44", "RSA-2048"}

enabled_kem_mechanisms == {"ML-KEM-512"}

enabled_sig_mechanisms == {"ML-DSA-44"}

MechanismNotSupportedError == "MechanismNotSupportedError"

RuntimeError == "RuntimeError"

Bytes(n, k) == [len |-> n, id |-> k]

NoBytes == Bytes(0, 0)

BytesLen(b) == b.len

\* the sizes the provider's mechanisms produce
KemPublicKey == Bytes(800, 0)

KemCiphertext == Bytes(768, 0)

KemSharedSecret(s) == Bytes(32, s)

SigPublicKey == Bytes(1312, 0)

SigSignature == Bytes(2420, 0)

\* b"Hello, Quantum World!"
message == Bytes(21, 0)

\* the exception a session constructor raises: the name is not enabled, or
\* the provider fails to set the session up
ConstructorError(enabled, algorithm) ==
  IF algorithm \in enabled THEN RuntimeError ELSE MechanismNotSupportedError

-----------------------------------------------------------------------------
(* Dicts and results *)

DictKeys(d) == [k \in 1..Len(d) |-> d[k][1]]

DictHas(d, key) == \E k \in 1..Len(d) : d[k][1] = key

DictGet(d, key) == d[CHOOSE k \in 1..Len(d) : d[k][1] = key][2]

\* a dict rebuilt on every assignment
DictSetClobber(d, key, value) == << <<key, value>> >>

\* dict.setdefault in place of an assignment
DictSetKeepFirst(d, key, value) ==
  IF DictHas(d, key) THEN d ELSE Append(d, <<key, value>>)

\* d[key] = value: a key already present keeps its place and gets the value
DictSet(d, key, value) ==
  IF DictHas(d, key)
  THEN [k \in 1..Len(d) |-> IF d[k][1] = key THEN <<key, value>> ELSE d[k]]
  ELSE Append(d, <<key, value>>)

CryptoResult(algorithm, operation, key_size, execution_time, success, details) ==
  [algorithm |-> algorithm, operation |-> operation, key_size |-> key_size,
   execution_time |-> execution_time, success |-> success, details |-> details]

\* a result that reports success without comparing the secrets
KemResultNoCheck(algorithm, pk, ct, ss_server, ss_client, execution_time) ==
  CryptoResult(algorithm, "KEM Exchange", BytesLen(pk), execution_time, TRUE,
    << <<"public_key_size", BytesLen(pk)>>,
       <<"ciphertext_size", BytesLen(ct)>>,
       <<"shared_secret_size", BytesLen(ss_server)>>,
       <<"secrets_match", TRUE>> >>)

\* lines 70-86
KemResult(algorithm, pk, ct, ss_server, ss_client, execution_time) ==
  LET success == ss_client = ss_server
  IN  CryptoResult(algorithm, "KEM Exchange", BytesLen(pk), execution_time, success,
        << <<"public_key_size", BytesLen(pk)>>,
           <<"ciphertext_size", BytesLen(ct)>>,
           <<"shared_secret_size", BytesLen(ss_server)>>,
           <<"secrets_match", success>> >>)

\* lines 117-129
SigResult(algorithm, pk, sig, msg, valid, execution_time) ==
  CryptoResult(algorithm, "Digital Signature", BytesLen(pk), execution_time, valid,
    << <<"public_key_size", BytesLen(pk)>>,
       <<"signature_size", BytesLen(sig)>>,
       <<"message_size", BytesLen(msg)>>,
       <<"verification_success", valid>> >>)

\* a failed result that drops the exception's text
ErrorResultNoText(algorithm, operation, execution_time, e) ==
  CryptoResult(algorithm, operation, 0, execution_time, FALSE, <<>>)

\* lines 90-97 and 133-140
ErrorResult(algorithm, operation, execution_time, e) ==
  CryptoResult(algorithm, operation, 0, execution_time, FALSE, << <<"error", e>> >>)

\* except RuntimeError
CaughtOnlyRuntime(e) == e = RuntimeError

\* except Exception
Caught(e) == e \in {MechanismNotSupportedError, RuntimeError}

\* a session that is never exited
ReleaseLeak(sessions, s) == sessions

\* a session's __exit__ at the end of its with block
Release(sessions, s) == sessions \ {s}

-----------------------------------------------------------------------------
(* benchmark_algorithm *)

operation_type == "both"

Requested(kind) ==
  IF kind = "kem" THEN operation_type \in {"both", "kem"}
                  ELSE operation_type \in {"both", "sig"}

\* the two blocks swapped
OperationOrderSigFirst == <<"sig", "kem">>

\* the order of the two "if operation_type in [...]" blocks
OperationOrder == <<"kem", "sig">>

-----------------------------------------------------------------------------
(* print_benchmark_summary *)

Title(key) ==
  CASE key = "public_key_size" -> "Public Key Size"
    [] key = "ciphertext_size" -> "Ciphertext Size"
    [] key = "shared_secret_size" -> "Shared Secret Size"
    [] key = "secrets_match" -> "Secrets Match"
    [] key = "signature_size" -> "Signature Size"
    [] key = "message_size" -> "Message Size"
    [] key = "verification_success" -> "Verification Success"
    [] OTHER -> key

Status(success) == IF success THEN "SUCCESS" ELSE "FAILED"

DetailLines(details) ==
  IF Len(details) > 0 /\ ~DictHas(details, "error")
  THEN [k \in 1..Len(details) |-> <<"Detail", Title(details[k][1]), details[k][2]>>]
  ELSE IF DictHas(details, "error")
       THEN << <<"Error", DictGet(details, "error")>> >>
       ELSE <<>>

\* a summary that leaves failed results out
ResultLinesSkipFailed(result) ==
  IF result.success
  THEN << <<"Operation", result.operation, Status(result.success)>>,
          <<"Execution Time", result.execution_time>>,
          <<"Key Size", result.key_size>> >> \o DetailLines(result.details)
  ELSE <<>>

\* lines 239-249
ResultLines(result) ==
  << <<"Operation", result.operation, Status(result.success)>>,
     <<"Execution Time", result.execution_time>>,
     <<"Key Size", result.key_size>> >> \o DetailLines(result.details)

RECURSIVE ResultsLines(_)
ResultsLines(rs) ==
  IF rs = <<>> THEN <<>> ELSE ResultLines(Head(rs)) \o ResultsLines(Tail(rs))

EntryLines(entry) ==
  IF entry[2] = <<>>
  THEN << <<"NoResults", entry[1]>> >>
  ELSE << <<"Algorithm", entry[1]>> >> \o ResultsLines(entry[2])

RECURSIVE EntriesLines(_)
EntriesLines(d) ==
  IF d = <<>> THEN <<>> ELSE EntryLines(Head(d)) \o EntriesLines(Tail(d))

print_benchmark_summary(report) ==
  << <<"Banner">>, <<"BENCHMARK RESULTS SUMMARY">>, <<"Banner">> >> \o EntriesLines(report)

-----------------------------------------------------------------------------
(* Initial state *)

Lists == UNION {[1..n -> AlgorithmNames] : n \in 0..MaxAlgs}

Init ==
  /\ algorithms \in Lists
  /\ i = 1
  /\ j = 1
  /\ pc = "loop"
  /\ results = <<>>
  /\ benchmark_results = <<>>
  /\ output = <<>>
  /\ now = 0
  /\ start_time = 0
  /\ open = {}
  /\ public_key = NoBytes
  /\ ciphertext = NoBytes
  /\ shared_secret_server = NoBytes
  /\ shared_secret_client = NoBytes
  /\ signature = NoBytes
  /\ is_valid = FALSE
  /\ exc = ""
  /\ escaped = FALSE
  /\ ret = <<>>
  /\ events = <<>>
  /\ invocations = <<>>
  /\ calls = <<>>

-----------------------------------------------------------------------------
(* Leaving the with blocks: the sessions held exit innermost first *)

RECURSIVE ReleaseAll(_, _)
ReleaseAll(sessions, held) ==
  IF held = <<>> THEN sessions
  ELSE ReleaseAll(Release(sessions, Head(held)), Tail(held))

ExitEvents(held) == [k \in 1..Len(held) |-> <<"release", held[k]>>]

\* a provider call raises e inside the with blocks of the sessions held
Raise(e, at, held, handler) ==
  /\ exc' = e
  /\ now' = now + 1
  /\ open' = ReleaseAll(open, held)
  /\ events' = events \o << <<"raise", at>> >> \o ExitEvents(held)
  /\ pc' = handler

\* a provider call returns
Return(at, next) ==
  /\ now' = now + 1
  /\ events' = Append(events, <<"call", at>>)
  /\ pc' = next
  /\ UNCHANGED <<exc, open>>

\* a session constructor returns and its with block is entered
Acquire(s, next) ==
  /\ now' = now + 1
  /\ open' = open \cup {s}
  /\ events' = Append(events, <<"acquire", s>>)
  /\ pc' = next
  /\ UNCHANGED exc

orchestrator == <<algorithms, i, j, results, benchmark_results, output,
                  invocations, calls>>

-----------------------------------------------------------------------------
(* simulate_kem_exchange *)

KemStart ==
  /\ pc = "kem_start"
  /\ start_time' = now
  /\ events' = << <<"timer", "start">> >>
  /\ pc' = "kem_client"
  /\ UNCHANGED <<orchestrator, locals, now, open, exc, escaped, ret>>

KemNewClient ==
  /\ pc = "kem_client"
  /\ \/ /\ algorithms[i] \in enabled_kem_mechanisms
        /\ Acquire("client", "kem_server")
     \/ Raise(ConstructorError(enabled_kem_mechanisms, algorithms[i]),
              "KeyEncapsulation", <<>>, "kem_except")
  /\ UNCHANGED <<orchestrator, locals, start_time, escaped, ret>>

KemNewServer ==
  /\ pc = "kem_server"
  /\ \/ Acquire("server", "kem_keypair")
     \/ Raise(RuntimeError, "KeyEncapsulation", <<"client">>, "kem_except")
  /\ UNCHANGED <<orchestrator, locals, start_time, escaped, ret>>

KemGenerateKeypair ==
  /\ pc = "kem_keypair"
  /\ \/ /\ public_key' = KemPublicKey
        /\ Return("client.generate_keypair", "kem_encap")
     \/ /\ Raise(RuntimeError, "client.generate_keypair", <<"server", "client">>,
                 "kem_except")
        /\ UNCHANGED public_key
  /\ UNCHANGED <<orchestrator, ciphertext, shared_secret_server,
                 shared_secret_client, signature, is_valid, start_time,
                 escaped, ret>>

KemEncapSecret ==
  /\ pc = "kem_encap"
  /\ \/ /\ \E s \in 1..NumSecrets :
             /\ ciphertext' = KemCiphertext
             /\ shared_secret_server' = KemSharedSecret(s)
        /\ Return("server.encap_secret", "kem_decap")
     \/ /\ Raise(RuntimeError, "server.encap_secret", <<"server", "client">>,
                 "kem_except")
        /\ UNCHANGED <<ciphertext, shared_secret_server>>
  /\ UNCHANGED <<orchestrator, public_key, shared_secret_client, signature,
                 is_valid, start_time, escaped, ret>>

KemDecapSecret ==
  /\ pc = "kem_decap"
  /\ \/ /\ \E s \in 1..NumSecrets : shared_secret_client' = KemSharedSecret(s)
        /\ Return("client.decap_secret", "kem_return")
     \/ /\ Raise(RuntimeError, "client.decap_secret", <<"server", "client">>,
                 "kem_except")
        /\ UNCHANGED shared_secret_client
  /\ UNCHANGED <<orchestrator, public_key, ciphertext, shared_secret_server,
                 signature, is_valid, start_time, escaped, ret>>

\* lines 70-86: compare, stop the timer, build the result, leave both blocks
KemReturn ==
  /\ pc = "kem_return"
  /\ ret' = << KemResult(algorithms[i], public_key, ciphertext,
                         shared_secret_server, shared_secret_client,
                         now - start_time) >>
  /\ events' = events \o << <<"timer", "stop">> >> \o ExitEvents(<<"server", "client">>)
  /\ open' = ReleaseAll(open, <<"server", "client">>)
  /\ pc' = "collect"
  /\ UNCHANGED <<orchestrator, locals, now, start_time, exc, escaped>>

\* lines 88-97
KemExcept ==
  /\ pc = "kem_except"
  /\ events' = Append(events, <<"timer", "stop">>)
  /\ IF Caught(exc)
     THEN /\ ret' = << ErrorResult(algorithms[i], "KEM Exchange",
                                   now - start_time, exc) >>
          /\ escaped' = FALSE
     ELSE /\ ret' = <<>>
          /\ escaped' = TRUE
  /\ pc' = "collect"
  /\ UNCHANGED <<orchestrator, locals, now, start_time, open, exc>>

-----------------------------------------------------------------------------
(* simulate_digital_signature *)

SigStart ==
  /\ pc = "sig_start"
  /\ start_time' = now
  /\ events' = << <<"timer", "start">> >>
  /\ pc' = "sig_signer"
  /\ UNCHANGED <<orchestrator, locals, now, open, exc, escaped, ret>>

SigNewSigner ==
  /\ pc = "sig_signer"
  /\ \/ /\ algorithms[i] \in enabled_sig_mechanisms
        /\ Acquire("signer", "sig_verifier")
     \/ Raise(ConstructorError(enabled_sig_mechanisms, algorithms[i]),
              "Signature", <<>>, "sig_except")
  /\ UNCHANGED <<orchestrator, locals, start_time, escaped, ret>>

SigNewVerifier ==
  /\ pc = "sig_verifier"
  /\ \/ Acquire("verifier", "sig_keypair")
     \/ Raise(RuntimeError, "Signature", <<"signer">>, "sig_except")
  /\ UNCHANGED <<orchestrator, locals, start_time, escaped, ret>>

SigGenerateKeypair ==
  /\ pc = "sig_keypair"
  /\ \/ /\ public_key' = SigPublicKey
        /\ Return("signer.generate_keypair", "sig_sign")
     \/ /\ Raise(RuntimeError, "signer.generate_keypair", <<"verifier", "signer">>,
                 "sig_except")
        /\ UNCHANGED public_key
  /\ UNCHANGED <<orchestrator, ciphertext, shared_secret_server,
                 shared_secret_client, signature, is_valid, start_time,
                 escaped, ret>>

SigSign ==
  /\ pc = "sig_sign"
  /\ \/ /\ signature' = SigSignature
        /\ Return("signer.sign", "sig_verify")
     \/ /\ Raise(RuntimeError, "signer.sign", <<"verifier", "signer">>,
                 "sig_except")
        /\ UNCHANGED signature
  /\ UNCHANGED <<orchestrator, public_key, ciphertext, shared_secret_server,
                 shared_secret_client, is_valid, start_time, escaped, ret>>

SigVerify ==
  /\ pc = "sig_verify"
  /\ \/ /\ \E v \in BOOLEAN : is_valid' = v
        /\ Return("verifier.verify", "sig_return")
     \/ /\ Raise(RuntimeError, "verifier.verify", <<"verifier", "signer">>,
                 "sig_except")
        /\ UNCHANGED is_valid
  /\ UNCHANGED <<orchestrator, public_key, ciphertext, shared_secret_server,
                 shared_secret_client, signature, start_time, escaped, ret>>

\* lines 115-129: stop the timer, build the result, leave both blocks
SigReturn ==
  /\ pc = "sig_return"
  /\ ret' = << SigResult(algorithms[i], public_key, signature, message,
                         is_valid, now - start_time) >>
  /\ events' = events \o << <<"timer", "stop">> >> \o ExitEvents(<<"verifier", "signer">>)
  /\ open' = ReleaseAll(open, <<"verifier", "signer">>)
  /\ pc' = "collect"
  /\ UNCHANGED <<orchestrator, locals, now, start_time, exc, escaped>>

\* lines 131-140
SigExcept ==
  /\ pc = "sig_except"
  /\ events' = Append(events, <<"timer", "stop">>)
  /\ IF Caught(exc)
     THEN /\ ret' = << ErrorResult(algorithms[i], "Digital Signature",
                                   now - start_time, exc) >>
          /\ escaped' = FALSE
     ELSE /\ ret' = <<>>
          /\ escaped' = TRUE
  /\ pc' = "collect"
  /\ UNCHANGED <<orchestrator, locals, now, start_time, open, exc>>

-----------------------------------------------------------------------------
(* benchmark_algorithm and run_comprehensive_benchmark *)

\* for algorithm in algorithms: results = [] in benchmark_algorithm
BenchmarkAlgorithm ==
  /\ pc = "loop"
  /\ i <= Len(algorithms)
  /\ results' = <<>>
  /\ j' = 1
  /\ pc' = "bench"
  /\ UNCHANGED <<algorithms, i, benchmark_results, output, invocations, calls,
                 locals, now, start_time, open, exc, escaped, ret, events>>

\* the next "if operation_type in [...]" block: call its runner or pass it
BenchmarkOperation ==
  /\ pc = "bench"
  /\ j <= Len(OperationOrder)
  /\ IF Requested(OperationOrder[j])
     THEN /\ invocations' = Append(invocations, <<i, OperationOrder[j]>>)
          /\ pc' = IF OperationOrder[j] = "kem" THEN "kem_start" ELSE "sig_start"
          /\ j' = j
     ELSE /\ j' = j + 1
          /\ UNCHANGED <<invocations, pc>>
  /\ UNCHANGED <<algorithms, i, results, benchmark_results, output, calls,
                 locals, now, start_time, open, exc, escaped, ret, events>>

\* the runner is back: results.append(...), or the except branch's warning
BenchmarkCollect ==
  /\ pc = "collect"
  /\ results' = IF escaped THEN results ELSE results \o ret
  /\ j' = j + 1
  /\ pc' = "bench"
  /\ ret' = <<>>
  /\ exc' = ""
  /\ escaped' = FALSE
  /\ public_key' = NoBytes
  /\ ciphertext' = NoBytes
  /\ shared_secret_server' = NoBytes
  /\ shared_secret_client' = NoBytes
  /\ signature' = NoBytes
  /\ is_valid' = FALSE
  /\ UNCHANGED <<algorithms, i, benchmark_results, output, invocations, calls,
                 now, start_time, open, events>>

\* return results; benchmark_results[algorithm] = results
BenchmarkStore ==
  /\ pc = "bench"
  /\ j > Len(OperationOrder)
  /\ benchmark_results' = DictSet(benchmark_results, algorithms[i], results)
  /\ calls' = Append(calls, <<algorithms[i], results>>)
  /\ i' = i + 1
  /\ pc' = "loop"
  /\ UNCHANGED <<algorithms, j, results, output, invocations,
                 locals, now, start_time, open, exc, escaped, ret, events>>

\* return benchmark_results
BenchmarkReturn ==
  /\ pc = "loop"
  /\ i > Len(algorithms)
  /\ pc' = "returned"
  /\ UNCHANGED <<algorithms, i, j, results, benchmark_results, output,
                 invocations, calls, locals, now, start_time, open, exc,
                 escaped, ret, events>>

\* main: simulator.print_benchmark_summary(benchmark_results)
PrintBenchmarkSummary ==
  /\ pc = "returned"
  /\ output' = print_benchmark_summary(benchmark_results)
  /\ pc' = "done"
  /\ UNCHANGED <<algorithms, i, j, results, benchmark_results,
                 invocations, calls, locals, now, start_time, open, exc,
                 escaped, ret, events>>

Next ==
  \/ BenchmarkAlgorithm
  \/ BenchmarkOperation
  \/ KemStart
  \/ KemNewClient
  \/ KemNewServer
  \/ KemGenerateKeypair
  \/ KemEncapSecret
  \/ KemDecapSecret
  \/ KemReturn
  \/ KemExcept
  \/ SigStart
  \/ SigNewSigner
  \/ SigNewVerifier
  \/ SigGenerateKeypair
  \/ SigSign
  \/ SigVerify
  \/ SigReturn
  \/ SigExcept
  \/ BenchmarkCollect
  \/ BenchmarkStore
  \/ BenchmarkReturn
  \/ PrintBenchmarkSummary

Spec == Init /\ [][Next]_vars

-----------------------------------------------------------------------------
(* Vocabulary of the properties *)

RECURSIVE Flatten(_)
Flatten(d) == IF d = <<>> THEN <<>> ELSE Head(d)[2] \o Flatten(Tail(d))

\* every CryptoResult the run holds: just returned, collected, or stored
AllResults == ret \o results \o Flatten(benchmark_results)

HasError(r) == DictHas(r.details, "error")

SizeKeys == {"public_key_size", "ciphertext_size", "shared_secret_size",
             "signature_size", "message_size"}

MatchKeys == {"secrets_match", "verification_success"}

SizesPresent(r) ==
  /\ r.key_size > 0
  /\ \E k \in 1..Len(r.details) : r.details[k][1] \in SizeKeys /\ r.details[k][2] > 0

SizesZeroOrAbsent(r) ==
  /\ r.key_size = 0
  /\ \A k \in 1..Len(r.details) : r.details[k][1] \in SizeKeys => r.details[k][2] = 0

MatchFlagFalse(r) ==
  \E k \in 1..Len(r.details) : r.details[k][1] \in MatchKeys /\ r.details[k][2] = FALSE

Raised == \E k \in 1..Len(events) : events[k][1] = "raise"

RaisedAt(at) == \E k \in 1..Len(events) : events[k] = <<"raise", at>>

IsCall(e) == e[1] = "call"

ProviderCalls == [k \in 1..Len(SelectSeq(events, IsCall)) |-> SelectSeq(events, IsCall)[k][2]]

Returned == pc \in {"returned", "done"}

OutsideRunner == pc \in {"loop", "bench", "collect", "returned", "done"}

Supports(algorithm, operation) ==
  IF operation = "KEM Exchange" THEN algorithm \in enabled_kem_mechanisms
                                ELSE algorithm \in enabled_sig_mechanisms

-----------------------------------------------------------------------------
(* C1: no exception leaves a runner: every invocation returns exactly one   *)
(* CryptoResult, and when a provider call raised (a session constructor of  *)
(* either party, generate_keypair, encap_secret/sign, decap_secret/verify)  *)
(* that result has success = false and details["error"] is the exception's  *)
(* description.                                                             *)
C1_ExceptionsBecomeFailedResults ==
  /\ ~escaped
  /\ pc = "collect" =>
       /\ Len(ret) = 1
       /\ Raised => /\ ~ret[1].success
                    /\ HasError(ret[1])
                    /\ DictGet(ret[1].details, "error") = exc
                    /\ exc # ""

C1_Witness ==
  /\ pc = "collect"
  /\ RaisedAt("verifier.verify")
  /\ Len(ret) = 1

(* C2 as the claim states it: a successful result has size metrics and no   *)
(* error description; a failed result has an error description and zero or  *)
(* absent size metrics.                                                     *)
C2_Original ==
  \A k \in 1..Len(AllResults) :
    LET r == AllResults[k]
    IN  /\ r.success => SizesPresent(r) /\ ~HasError(r)
        /\ ~r.success => HasError(r) /\ SizesZeroOrAbsent(r)

(* C2 as amended: a successful result has size metrics and no error         *)
(* description; a result with an error description is failed and has zero   *)
(* or absent size metrics; a failed result without an error description is  *)
(* a round trip whose check failed: it has the size metrics and its match   *)
(* flag (secrets_match, verification_success) is false.                     *)
C2_ResultShape ==
  \A k \in 1..Len(AllResults) :
    LET r == AllResults[k]
    IN  /\ r.success => SizesPresent(r) /\ ~HasError(r)
        /\ HasError(r) => ~r.success /\ SizesZeroOrAbsent(r)
        /\ (~r.success /\ ~HasError(r)) => SizesPresent(r) /\ MatchFlagFalse(r)

C2_Witness ==
  /\ Returned
  /\ \E k \in 1..Len(AllResults) : ~AllResults[k].success /\ ~HasError(AllResults[k])
  /\ \E k \in 1..Len(AllResults) : HasError(AllResults[k])
  /\ \E k \in 1..Len(AllResults) : AllResults[k].success

(* C3: when no provider call raised, the calls were made in the order       *)
(* generate_keypair (client / signer), encap_secret (server) or sign        *)
(* (signer), decap_secret (client) or verify (verifier), and the result's   *)
(* success is true exactly when the decapsulated secret equals the          *)
(* encapsulated one (KEM) or verify returned true (signature).              *)
C3_SuccessIsRoundTrip ==
  (pc = "collect" /\ ~Raised) =>
    /\ Len(ret) = 1
    /\ IF invocations[Len(invocations)][2] = "kem"
       THEN /\ ProviderCalls = <<"client.generate_keypair", "server.encap_secret",
                                 "client.decap_secret">>
            /\ ret[1].operation = "KEM Exchange"
            /\ ret[1].success = (shared_secret_client = shared_secret_server)
       ELSE /\ ProviderCalls = <<"signer.generate_keypair", "signer.sign",
                                 "verifier.verify">>
            /\ ret[1].operation = "Digital Signature"
            /\ ret[1].success = is_valid

C3_Witness ==
  /\ pc = "collect"
  /\ ~Raised
  /\ Len(ret) = 1
  /\ ret[1].operation = "KEM Exchange"
  /\ shared_secret_client # shared_secret_server
  /\ ~ret[1].success

(* C4: whatever fails for one algorithm of the list, the run goes on: it    *)
(* never stops before the end of the list, and when it has returned every   *)
(* position of the list was benchmarked and its name has a report entry     *)
(* holding one result per requested operation, all for that name.           *)
C4_Isolation ==
  /\ pc # "done" => ENABLED Next
  /\ Returned =>
       /\ i = Len(algorithms) + 1
       /\ Len(calls) = Len(algorithms)
       /\ \A k \in 1..Len(algorithms) :
            /\ calls[k][1] = algorithms[k]
            /\ Len(calls[k][2]) = Len(SelectSeq(OperationOrder, Requested))
            /\ DictHas(benchmark_results, algorithms[k])
            /\ LET entry == DictGet(benchmark_results, algorithms[k])
               IN  /\ Len(entry) = Len(SelectSeq(OperationOrder, Requested))
                   /\ \A m \in 1..Len(entry) : entry[m].algorithm = algorithms[k]

C4_Witness ==
  /\ pc = "returned"
  /\ algorithms = <<"ML-KEM-512", "RSA-2048", "ML-DSA-44">>
  /\ DictGet(benchmark_results, "ML-KEM-512")[1].success
  /\ \A m \in 1..2 : ~DictGet(benchmark_results, "RSA-2048")[m].success
  /\ DictGet(benchmark_results, "ML-DSA-44")[2].success

(* C5 as the claim states it: an algorithm/operation pair the provider does *)
(* not support leaves no failed result in the report, and a name in neither *)
(* enabled set gets an entry with no operation attempted.                   *)
C5_UnsupportedSkipped ==
  Returned =>
    /\ \A k \in 1..Len(Flatten(benchmark_results)) :
         LET r == Flatten(benchmark_results)[k]
         IN  ~Supports(r.algorithm, r.operation) => r.success
    /\ \A k \in 1..Len(benchmark_results) :
         benchmark_results[k][1] \notin (enabled_kem_mechanisms \cup enabled_sig_mechanisms)
           => benchmark_results[k][2] = <<>>

(* C6: the runner invocations of a run are, in order, KEM then signature    *)
(* for the first position of the list, then for the second, and so on:      *)
(* list order, KEM before signature, each pair attempted exactly once.      *)
ExpectedInvocations ==
  [m \in 1..(2 * Len(algorithms)) |->
     <<(m + 1) \div 2, IF m % 2 = 1 THEN "kem" ELSE "sig">>]

C6_OrderAndOnce ==
  /\ Len(invocations) <= Len(ExpectedInvocations)
  /\ \A m \in 1..Len(invocations) : invocations[m] = ExpectedInvocations[m]
  /\ Returned => invocations = ExpectedInvocations

C6_Witness ==
  /\ pc = "returned"
  /\ Len(algorithms) = 2
  /\ Len(invocations) = 4
  /\ \E k \in 1..Len(calls) : ~calls[k][2][1].success

(* C7: once a runner has returned, normally or after an exception at any    *)
(* step, no session it acquired is still open.                              *)
C7_SessionsReleased ==
  OutsideRunner => open = {}

C7_Witness ==
  /\ pc = "collect"
  /\ events[2] = <<"acquire", "client">>
  /\ events[3] = <<"raise", "KeyEncapsulation">>
  /\ events[4] = <<"release", "client">>
  /\ open = {}

(* C8 as the claim states it: the timer is started after both sessions are  *)
(* acquired and stopped before any is released, so no session is acquired   *)
(* or released between timer start and timer stop; and the recorded         *)
(* duration is not negative.                                                *)
EventIndex(e) == CHOOSE k \in 1..Len(events) : events[k] = e

C8_TimerCoversOnlyCrypto ==
  pc = "collect" =>
    /\ \A k \in 1..Len(events) :
         /\ events[k][1] = "acquire" => k < EventIndex(<<"timer", "start">>)
         /\ events[k][1] = "release" => k > EventIndex(<<"timer", "stop">>)
    /\ \A k \in 1..Len(ret) : ret[k].execution_time >= 0

(* C9: print_benchmark_summary logs, in the report's order, one header per  *)
(* entry and one block per result of the entry, failed results included;    *)
(* the block of a result with an error holds the error line and no size     *)
(* line; and the report is left as it was.                                  *)
IsHeader(line) == line[1] \in {"Algorithm", "NoResults"}

IsOperation(line) == line[1] = "Operation"

\* the lines of the block that starts at the Operation line at position p
BlockOf(out, p) ==
  LET stops == {q \in (p + 1)..Len(out) : IsHeader(out[q]) \/ IsOperation(out[q])}
      end == IF stops = {} THEN Len(out) + 1
             ELSE CHOOSE q \in stops : \A q2 \in stops : q <= q2
  IN  SubSeq(out, p, end - 1)

\* the name in the last header at or before position p
HeaderOf(out, p) ==
  LET heads == {q \in 1..p : IsHeader(out[q])}
  IN  out[CHOOSE q \in heads : \A q2 \in heads : q2 <= q][2]

\* the position of the m-th Operation line
OperationAt(out, m) ==
  CHOOSE p \in 1..Len(out) :
    /\ IsOperation(out[p])
    /\ Cardinality({q \in 1..p : IsOperation(out[q])}) = m

SummaryShows(out, report) ==
  LET flat == Flatten(report)
      heads == SelectSeq(out, IsHeader)
  IN  /\ Len(heads) = Len(report)
      /\ \A k \in 1..Len(report) :
           /\ heads[k][2] = report[k][1]
           /\ heads[k][1] = IF report[k][2] = <<>> THEN "NoResults" ELSE "Algorithm"
      /\ Len(SelectSeq(out, IsOperation)) = Len(flat)
      /\ \A m \in 1..Len(flat) :
           LET p == OperationAt(out, m)
               block == BlockOf(out, p)
               r == flat[m]
           IN  /\ HeaderOf(out, p) = r.algorithm
               /\ out[p][2] = r.operation
               /\ out[p][3] = Status(r.success)
               /\ IF HasError(r)
                  THEN /\ \E q \in 1..Len(block) :
                            block[q] = <<"Error", DictGet(r.details, "error")>>
                       /\ \A q \in 1..Len(block) : block[q][1] # "Detail"
                  ELSE /\ \A q \in 1..Len(block) : block[q][1] # "Error"
                       /\ Len(SelectSeq(block, LAMBDA l : l[1] = "Detail")) = Len(r.details)

C9_SummaryIsReadOnlyProjection ==
  [][pc = "returned" =>
       /\ benchmark_results' = benchmark_results
       /\ calls' = calls
       /\ SummaryShows(output', benchmark_results)]_vars

C9_Witness ==
  /\ pc = "done"
  /\ Len(benchmark_results) = 2
  /\ \E k \in 1..Len(Flatten(benchmark_results)) :
       /\ HasError(Flatten(benchmark_results)[k])
       /\ Flatten(benchmark_results)[k].operation = "KEM Exchange"
       /\ Flatten(benchmark_results)[k].algorithm = "ML-KEM-512"
  /\ \E q \in 1..Len(output) : output[q] = <<"Error", RuntimeError>>
  /\ \E q \in 1..Len(output) : output[q][1] = "Detail"

(* C10: after the run has returned, the report's keys are exactly the       *)
(* distinct names of the list, each once; each entry is what the last       *)
(* benchmark_algorithm call for that name returned (at most one KEM result  *)
(* followed by at most one signature result); and a name that occurs more   *)
(* than once was run once per occurrence.                                   *)
LastCall(name) ==
  CHOOSE k \in 1..Len(calls) :
    /\ calls[k][1] = name
    /\ \A k2 \in 1..Len(calls) : calls[k2][1] = name => k2 <= k

KemThenSig(entry) ==
  /\ Len(entry) <= 2
  /\ \A m \in 1..Len(entry) : entry[m].operation \in {"KEM Exchange", "Digital Signature"}
  /\ Len(entry) = 2 =>
       entry[1].operation = "KEM Exchange" /\ entry[2].operation = "Digital Signature"

C10_ReportKeysAndLastWins ==
  Returned =>
    /\ {benchmark_results[k][1] : k \in 1..Len(benchmark_results)}
         = {algorithms[k] : k \in 1..Len(algorithms)}
    /\ \A k1, k2 \in 1..Len(benchmark_results) :
         benchmark_results[k1][1] = benchmark_results[k2][1] => k1 = k2
    /\ Len(calls) = Len(algorithms)
    /\ \A k \in 1..Len(algorithms) :
         /\ calls[k][1] = algorithms[k]
         /\ \E m \in 1..Len(invocations) : invocations[m][1] = k
    /\ \A k \in 1..Len(benchmark_results) :
         /\ benchmark_results[k][2] = calls[LastCall(benchmark_results[k][1])][2]
         /\ KemThenSig(benchmark_results[k][2])

C10_Witness ==
  /\ pc = "returned"
  /\ algorithms = <<"ML-KEM-512", "ML-DSA-44", "ML-KEM-512">>
  /\ calls[1][2][1].success
  /\ ~calls[3][2][1].success
  /\ Len(benchmark_results) = 2
  /\ ~DictGet(benchmark_results, "ML-KEM-512")[1].success

====
